---- MODULE Spec2Model ----
(***************************************************************************)
(* Model of src/src/index.ts: the GrantScraper class (constructor,         *)
(* initialize, close, scrapeGrants, getAllGrants, formatAmount,            *)
(* formatDeadline) and the main() entry point.                             *)
(*                                                                         *)
(* Time is counted in seconds since the Unix epoch: the reference time     *)
(* currentDate is parsed from a string that carries no milliseconds, and   *)
(* every Date literal of the table is a UTC midnight.                      *)
(* Strings that hold a currency glyph are sequences of tokens, the yen     *)
(* glyph U+00A5 being the token "YEN" and the full-width glyph U+FFE5 the  *)
(* token "FULLWIDTH_YEN".                                                  *)
(***************************************************************************)
EXTENDS Integers, Sequences, FiniteSets, TLC

VARIABLES
    now,          \* wall clock of the process (what new Date() reads)
    ticks,        \* how often the wall clock has advanced
    localOffset,  \* UTC offset of the process's time zone, in seconds
    constructed,  \* constructed[i]: instance i exists
    currentDate,  \* GrantScraper.currentDate of each instance
    browser,      \* GrantScraper.browser of each instance
    ret,          \* the last return of scrapeGrants/getAllGrants, per instance
    console,      \* the lines written by console.log / console.error
    pc,           \* position of main()
    grants,       \* main's local `grants`
    index,        \* the forEach index inside main
    exc,          \* the exception in flight in main, "none" when there is none
    thrown,       \* the try block of main has thrown
    closeCalls,   \* how often main has invoked scraper.close()
    acquired,     \* main's initialize() has acquired a browser handle
    initDone,     \* an initialize() call has completed on the instance
    formatted     \* the last call of a formatter: name, arguments, result

vars == <<now, ticks, localOffset, constructed, currentDate, browser,
          initDone, ret,
          console, pc, grants, index, exc, thrown, closeCalls, acquired,
          formatted>>

objVars  == <<constructed, currentDate, browser, initDone>>
mainVars == <<pc, grants, index, exc, thrown, closeCalls, acquired>>
fmtVars  == <<formatted>>

----------------------------------------------------------------------------
(* Bounds *)

MaxTicks == 2
MaxLog == 1
MaxAmountLen == 3

Scrapers == {1, 2}

----------------------------------------------------------------------------
(* Dates *)

Undefined == -1

SecondsPerDay == 24 * 60 * 60

\* 24 * 60 * 60 * 1000 milliseconds, in seconds
OneDay == 24 * 60 * 60

TokyoOffset == 9 * 60 * 60

LocalOffsets == {TokyoOffset, -(5 * 60 * 60)}

\* days since 1970-01-01 of a civil date of the proleptic Gregorian calendar
DaysFromCivil(y, m, d) ==
    LET yy  == IF m <= 2 THEN y - 1 ELSE y
        era == yy \div 400
        yoe == yy - era * 400
        mp  == IF m > 2 THEN m - 3 ELSE m + 9
        doy == (153 * mp + 2) \div 5 + d - 1
        doe == yoe * 365 + yoe \div 4 - yoe \div 100 + doy
    IN  era * 146097 + doe - 719468

\* new Date('YYYY-MM-DD'): a date-only ISO string is UTC midnight
DateUTC(y, m, d) == DaysFromCivil(y, m, d) * SecondsPerDay

CivilFromDays(z0) ==
    LET z   == z0 + 719468
        era == z \div 146097
        doe == z - era * 146097
        yoe == (doe - doe \div 1460 + doe \div 36524 - doe \div 146096) \div 365
        doy == doe - (365 * yoe + yoe \div 4 - yoe \div 100)
        mp  == (5 * doy + 2) \div 153
        d   == doy - (153 * mp + 2) \div 5 + 1
        m   == IF mp < 10 THEN mp + 3 ELSE mp - 9
        y   == yoe + era * 400 + (IF m <= 2 THEN 1 ELSE 0)
    IN  <<y, m, d>>

\* Date.prototype.toLocaleDateString('ja-JP'): year/month/day of the date in
\* the process's time zone
toLocaleDateString(t) == CivilFromDays((t + localOffset) \div SecondsPerDay)

jfStart == DateUTC(2024, 12, 1)
jfEnd == DateUTC(2025, 1, 15)
saraiStart == DateUTC(2024, 1, 15)
saraiEnd == DateUTC(2024, 2, 28)

\* new Date(new Date().toLocaleString("en-US", {timeZone: "Asia/Tokyo"})):
\* the Tokyo wall-clock reading of n, read back as a local time
TokyoNow(n) == n + TokyoOffset - localOffset

----------------------------------------------------------------------------
(* The static table *)

NoDeadline ==
    [isRolling |-> FALSE, cycle |-> "undefined", start |-> Undefined,
     end |-> Undefined, nextDeadline |-> Undefined]

Pollination_shortDay(cd, n) ==
    [title |-> "Pollination Project Daily Grant",
     organization |-> "The Pollination Project",
     amount |-> <<"$1,000">>,
     minimumAmount |-> 1000,
     maximumAmount |-> 1000,
     currency |-> "USD",
     deadline |-> [isRolling |-> TRUE, cycle |-> "daily", start |-> Undefined,
                   end |-> Undefined, nextDeadline |-> cd + 24 * 60],
     upfrontPayment |-> TRUE,
     url |-> "https://thepollinationproject.org",
     category |-> <<"Social Change", "Community", "Environment", "Education">>,
     lastUpdated |-> n,
     status |-> "active"]

Pollination_wallClock(cd, n) ==
    [Pollination_shortDay(cd, n) EXCEPT !.deadline.nextDeadline = n + OneDay]

Pollination_withWindow(cd, n) ==
    [Pollination_shortDay(cd, n) EXCEPT !.deadline.nextDeadline = cd + OneDay,
                                        !.deadline.start = cd]

\* grants.push({ title: 'Pollination Project Daily Grant', ... })
Pollination(cd, n) ==
    [title |-> "Pollination Project Daily Grant",
     organization |-> "The Pollination Project",
     amount |-> <<"$1,000">>,
     minimumAmount |-> 1000,
     maximumAmount |-> 1000,
     currency |-> "USD",
     deadline |-> [isRolling |-> TRUE, cycle |-> "daily", start |-> Undefined,
                   end |-> Undefined, nextDeadline |-> cd + OneDay],
     upfrontPayment |-> TRUE,
     url |-> "https://thepollinationproject.org",
     category |-> <<"Social Change", "Community", "Environment", "Education">>,
     lastUpdated |-> n,
     status |-> "active"]

\* grants.push({ title: 'Japan Foundation ...', ... })
JapanFoundation(n) ==
    [title |-> "Japan Foundation Art Platform Grant",
     organization |-> "Japan Foundation",
     amount |-> <<"YEN", "1,000,000", " - ", "YEN", "5,000,000">>,
     minimumAmount |-> 1000000,
     maximumAmount |-> 5000000,
     currency |-> "JPY",
     deadline |-> [isRolling |-> FALSE, cycle |-> "undefined", start |-> jfStart,
                   end |-> jfEnd, nextDeadline |-> jfEnd],
     upfrontPayment |-> TRUE,
     url |-> "https://www.jpf.go.jp",
     category |-> <<"Arts", "Culture", "International">>,
     lastUpdated |-> n,
     status |-> "upcoming"]

\* grants.push({ title: 'SARAI ...', ... })
Sarai(n) ==
    [title |-> "SARAI Project Grant",
     organization |-> "Sustainable Agriculture Research Program",
     amount |-> <<"YEN", "500,000", " - ", "YEN", "2,000,000">>,
     minimumAmount |-> 500000,
     maximumAmount |-> 2000000,
     currency |-> "JPY",
     deadline |-> [isRolling |-> FALSE, cycle |-> "undefined", start |-> saraiStart,
                   end |-> saraiEnd, nextDeadline |-> saraiEnd],
     upfrontPayment |-> TRUE,
     url |-> "https://sarai.example.com",
     category |-> <<"Agriculture", "Sustainability", "Innovation", "Education">>,
     lastUpdated |-> n,
     status |-> "upcoming"]

\* the titles of the table in the order the source writes them
AuthoringOrder ==
    <<"Pollination Project Daily Grant",
      "Japan Foundation Art Platform Grant",
      "SARAI Project Grant">>

----------------------------------------------------------------------------
(* GrantScraper: the pure parts *)

scrapeGrants_saraiFirst(cd, br, n) ==
    IF br = "null" THEN <<>>
    ELSE LET g1 == <<Pollination(cd, n), Sarai(n)>>
         IN  IF cd <= jfEnd THEN Append(g1, JapanFoundation(n)) ELSE g1

\* scrapeGrants(), as a function of this.currentDate, this.browser and the
\* wall clock
scrapeGrants(cd, br, n) ==
    IF br = "null" THEN <<>>
    ELSE LET g1 == <<Pollination(cd, n)>>
             g2 == IF cd <= jfEnd THEN Append(g1, JapanFoundation(n)) ELSE g1
         IN  Append(g2, Sarai(n))

\* String.prototype.replace with a string pattern: the first occurrence only
RECURSIVE replace(_, _, _)
replace(s, pattern, replacement) ==
    IF s = <<>> THEN <<>>
    ELSE IF Head(s) = pattern THEN <<replacement>> \o Tail(s)
    ELSE <<Head(s)>> \o replace(Tail(s), pattern, replacement)

formatAmount(amount, currency) ==
    IF currency = "JPY" THEN replace(amount, "YEN", "FULLWIDTH_YEN")
    ELSE amount

formatDeadline_rangeFirst(deadline) ==
    IF deadline.isRolling THEN <<"rolling">>
    ELSE IF deadline.start # Undefined /\ deadline.end # Undefined
    THEN <<"range", toLocaleDateString(deadline.start),
                    toLocaleDateString(deadline.end)>>
    ELSE IF deadline.nextDeadline # Undefined
    THEN <<"next", toLocaleDateString(deadline.nextDeadline)>>
    ELSE <<"fallback">>

\* the four renderings are named rolling, next, range and fallback
formatDeadline(deadline) ==
    IF deadline.isRolling THEN <<"rolling">>
    ELSE IF deadline.nextDeadline # Undefined
    THEN <<"next", toLocaleDateString(deadline.nextDeadline)>>
    ELSE IF deadline.start # Undefined /\ deadline.end # Undefined
    THEN <<"range", toLocaleDateString(deadline.start),
                    toLocaleDateString(deadline.end)>>
    ELSE <<"fallback">>

----------------------------------------------------------------------------
(* GrantScraper: the methods, as changes of the instance's fields *)

\* new GrantScraper()
constructor(i) ==
    /\ ~constructed[i]
    /\ constructed' = [constructed EXCEPT ![i] = TRUE]
    /\ currentDate' = [currentDate EXCEPT ![i] = TokyoNow(now)]
    /\ browser' = [browser EXCEPT ![i] = "null"]
    /\ UNCHANGED initDone

\* initialize(), puppeteer.launch resolves
initialize(i) ==
    /\ constructed[i]
    /\ browser' = [browser EXCEPT ![i] = "open"]
    /\ initDone' = [initDone EXCEPT ![i] = TRUE]
    /\ UNCHANGED <<constructed, currentDate>>

\* initialize(), puppeteer.launch rejects: the assignment never happens
initializeFails(i) ==
    /\ constructed[i]
    /\ UNCHANGED objVars

close_resetsHandle(i) ==
    /\ constructed[i]
    /\ browser' = [browser EXCEPT ![i] = "null"]
    /\ UNCHANGED <<constructed, currentDate, initDone>>

\* close(): Browser.close() disposes of the handle, the field keeps it
close(i) ==
    /\ constructed[i]
    /\ browser' = [browser EXCEPT ![i] =
                      IF browser[i] # "null" THEN "closed" ELSE "null"]
    /\ UNCHANGED <<constructed, currentDate, initDone>>

NoReturn ==
    [called |-> FALSE, grants |-> <<>>, browser |-> "null",
     initDone |-> FALSE, at |-> Undefined]

\* what a call of scrapeGrants on instance i returns now, with the
\* circumstances of the call
Return(i) ==
    [called |-> TRUE,
     grants |-> scrapeGrants(currentDate[i], browser[i], now),
     browser |-> browser[i],
     initDone |-> initDone[i],
     at |-> now]

----------------------------------------------------------------------------
(* A client that calls the public methods in any order *)

Tick ==
    /\ ticks < MaxTicks
    /\ now' = now + 1
    /\ ticks' = ticks + 1
    /\ UNCHANGED <<localOffset, objVars, ret, console, mainVars, fmtVars>>

Construct(i) ==
    /\ constructor(i)
    /\ UNCHANGED <<now, ticks, localOffset, ret, console, mainVars, fmtVars>>

CallInitialize(i) ==
    /\ initialize(i)
    /\ UNCHANGED <<now, ticks, localOffset, ret, console, mainVars, fmtVars>>

CallInitializeFails(i) ==
    /\ initializeFails(i)
    /\ UNCHANGED <<now, ticks, localOffset, ret, console, mainVars, fmtVars>>

CallClose(i) ==
    /\ close(i)
    /\ UNCHANGED <<now, ticks, localOffset, ret, console, mainVars, fmtVars>>

CallScrapeGrants_refreshesDate(i) ==
    /\ constructed[i]
    /\ ret' = [ret EXCEPT ![i] =
                  [Return(i) EXCEPT !.grants =
                      scrapeGrants(TokyoNow(now), browser[i], now)]]
    /\ currentDate' = [currentDate EXCEPT ![i] = TokyoNow(now)]
    /\ UNCHANGED <<now, ticks, localOffset, constructed, browser, initDone,
                   console, mainVars, fmtVars>>

CallScrapeGrants(i) ==
    /\ constructed[i]
    /\ ret' = [ret EXCEPT ![i] = Return(i)]
    /\ UNCHANGED <<now, ticks, localOffset, objVars, console, mainVars, fmtVars>>

\* getAllGrants(): scrapeGrants, then one console line with the count
CallGetAllGrants(i) ==
    /\ constructed[i]
    /\ Len(console) < MaxLog
    /\ ret' = [ret EXCEPT ![i] = Return(i)]
    /\ console' = Append(console, <<"count", Len(Return(i).grants)>>)
    /\ UNCHANGED <<now, ticks, localOffset, objVars, mainVars, fmtVars>>

\* wall-clock readings that put the reference time one second before an end date
StartTimes(off) == {e - 1 - TokyoOffset + off : e \in {saraiEnd, jfEnd}}

InitClock ==
    /\ localOffset \in LocalOffsets
    /\ now \in StartTimes(localOffset)
    /\ ticks = 0

InitObjects ==
    /\ constructed = [i \in Scrapers |-> FALSE]
    /\ currentDate = [i \in Scrapers |-> Undefined]
    /\ browser = [i \in Scrapers |-> "null"]
    /\ initDone = [i \in Scrapers |-> FALSE]
    /\ ret = [i \in Scrapers |-> NoReturn]
    /\ console = <<>>

InitMain ==
    /\ pc = "new"
    /\ grants = <<>>
    /\ index = 0
    /\ exc = "none"
    /\ thrown = FALSE
    /\ closeCalls = 0
    /\ acquired = FALSE

InitFormat ==
    formatted = <<"none">>

Init == InitClock /\ InitObjects /\ InitMain /\ InitFormat

Next ==
    \/ Tick
    \/ \E i \in Scrapers : Construct(i)
    \/ \E i \in Scrapers : CallInitialize(i)
    \/ \E i \in Scrapers : CallInitializeFails(i)
    \/ \E i \in Scrapers : CallClose(i)
    \/ \E i \in Scrapers : CallScrapeGrants(i)
    \/ \E i \in Scrapers : CallGetAllGrants(i)

Spec == Init /\ [][Next]_vars

----------------------------------------------------------------------------
(* main() *)

\* Date.prototype.toLocaleString('ja-JP'): the local date and time of day
toLocaleString(t) ==
    <<toLocaleDateString(t), (t + localOffset) % SecondsPerDay>>

\* the block main prints for one grant
Block(k, grant) ==
    <<"grant", k, grant.title, grant.organization, grant.amount, grant.currency,
      IF grant.status = "active" THEN "open" ELSE "upcoming",
      formatDeadline(grant.deadline), grant.category, grant.upfrontPayment,
      grant.url>>

\* const scraper = new GrantScraper()
MainConstruct ==
    /\ pc = "new"
    /\ constructor(1)
    /\ pc' = "initialize"
    /\ UNCHANGED <<now, ticks, localOffset, ret, console, grants, index, exc,
                   thrown, closeCalls, acquired, fmtVars>>

\* await scraper.initialize() resolves; the current time is printed
MainInitialize ==
    /\ pc = "initialize"
    /\ initialize(1)
    /\ acquired' = TRUE
    /\ console' = Append(console, <<"now", toLocaleString(now)>>)
    /\ pc' = "getAllGrants"
    /\ UNCHANGED <<now, ticks, localOffset, ret, grants, index, exc,
                   thrown, closeCalls, fmtVars>>

\* await scraper.initialize() rejects
MainInitializeFails ==
    /\ pc = "initialize"
    /\ initializeFails(1)
    /\ exc' = "launch failed"
    /\ thrown' = TRUE
    /\ pc' = "catch"
    /\ UNCHANGED <<now, ticks, localOffset, ret, console, grants, index,
                   closeCalls, acquired, fmtVars>>

\* const grants = await scraper.getAllGrants()
MainGetAllGrants ==
    /\ pc = "getAllGrants"
    /\ grants' = scrapeGrants(currentDate[1], browser[1], now)
    /\ console' = Append(console, <<"count", Len(grants')>>)
    /\ index' = 1
    /\ pc' = "forEach"
    /\ UNCHANGED <<now, ticks, localOffset, objVars, ret, exc, thrown,
                   closeCalls, acquired, fmtVars>>

\* one iteration of grants.forEach
MainPrintGrant ==
    /\ pc = "forEach"
    /\ index <= Len(grants)
    /\ console' = Append(console, Block(index, grants[index]))
    /\ index' = index + 1
    /\ UNCHANGED <<now, ticks, localOffset, objVars, ret, pc, grants, exc,
                   thrown, closeCalls, acquired, fmtVars>>

\* forEach returns, the try block ends
MainForEachDone ==
    /\ pc = "forEach"
    /\ index > Len(grants)
    /\ pc' = "finally"
    /\ UNCHANGED <<now, ticks, localOffset, objVars, ret, console, grants,
                   index, exc, thrown, closeCalls, acquired, fmtVars>>

\* a statement of the try block after initialize throws
MainThrow ==
    /\ pc \in {"getAllGrants", "forEach"}
    /\ exc' = "error"
    /\ thrown' = TRUE
    /\ pc' = "catch"
    /\ UNCHANGED <<now, ticks, localOffset, objVars, ret, console, grants,
                   index, closeCalls, acquired, fmtVars>>

MainCatch_returns ==
    /\ pc = "catch"
    /\ console' = Append(console, <<"Error:", exc>>)
    /\ exc' = "none"
    /\ pc' = "done"
    /\ UNCHANGED <<now, ticks, localOffset, objVars, ret, grants, index,
                   thrown, closeCalls, acquired, fmtVars>>

\* catch (error) { console.error('Error:', error) }
MainCatch ==
    /\ pc = "catch"
    /\ console' = Append(console, <<"Error:", exc>>)
    /\ exc' = "none"
    /\ pc' = "finally"
    /\ UNCHANGED <<now, ticks, localOffset, objVars, ret, grants, index,
                   thrown, closeCalls, acquired, fmtVars>>

\* finally { await scraper.close() }, then main's promise settles
MainFinally ==
    /\ pc = "finally"
    /\ close(1)
    /\ closeCalls' = closeCalls + 1
    /\ pc' = "done"
    /\ UNCHANGED <<now, ticks, localOffset, ret, console, grants, index, exc,
                   thrown, acquired, fmtVars>>

\* how main's promise has settled
MainOutcome ==
    IF pc # "done" THEN "pending"
    ELSE IF exc = "none" THEN "resolved" ELSE "rejected"

NextMain ==
    \/ Tick
    \/ MainConstruct
    \/ MainInitialize
    \/ MainInitializeFails
    \/ MainGetAllGrants
    \/ MainPrintGrant
    \/ MainForEachDone
    \/ MainThrow
    \/ MainCatch
    \/ MainFinally

SpecMain == Init /\ [][NextMain]_vars

----------------------------------------------------------------------------
(* The private formatters, called on arbitrary arguments *)

DateInputs == {Undefined, jfStart, jfEnd}

DeadlineInputs ==
    [isRolling : BOOLEAN, cycle : {"undefined"}, start : DateInputs,
     end : DateInputs, nextDeadline : DateInputs]

Glyphs == {"YEN", "FULLWIDTH_YEN", "1,000"}

AmountInputs ==
    UNION {[1..n -> Glyphs] : n \in 0..MaxAmountLen}
        \cup {Pollination(0, 0).amount, JapanFoundation(0).amount, Sarai(0).amount}

Currencies == {"USD", "JPY", "EUR"}

CallFormatDeadline ==
    /\ \E d \in DeadlineInputs :
          formatted' = <<"formatDeadline", d, formatDeadline(d)>>
    /\ UNCHANGED <<now, ticks, localOffset, objVars, ret, console, mainVars>>

CallFormatAmount ==
    /\ \E a \in AmountInputs, c \in Currencies :
          formatted' = <<"formatAmount", a, c, formatAmount(a, c)>>
    /\ UNCHANGED <<now, ticks, localOffset, objVars, ret, console, mainVars>>

NextFormat ==
    \/ CallFormatDeadline
    \/ CallFormatAmount

SpecFormat == Init /\ [][NextFormat]_vars

----------------------------------------------------------------------------
(* Properties *)

\* the table's records, as written (the two per-call stamps left at zero)
Table == <<Pollination(0, 0), JapanFoundation(0), Sarai(0)>>

Has(gs, title) == \E k \in 1..Len(gs) : gs[k].title = title

\* position of a title in the authoring order, 0 for a foreign title
Position(title) ==
    IF \E k \in 1..Len(AuthoringOrder) : AuthoringOrder[k] = title
    THEN CHOOSE k \in 1..Len(AuthoringOrder) : AuthoringOrder[k] = title
    ELSE 0

\* what a caller sees of a returned list: everything but lastUpdated, with
\* the rendering of each deadline
Visible(gs) ==
    [k \in 1..Len(gs) |->
        <<[gs[k] EXCEPT !.lastUpdated = 0], formatDeadline(gs[k].deadline)>>]

\* the rolling records of a returned list
Rolling(gs) == {k \in 1..Len(gs) : gs[k].deadline.isRolling}

\* C1: every non-rolling record of the table is in the list scrapeGrants
\* returns (browser acquired) if and only if currentDate <= its deadline.end.
C1_VisibleIffNotPastEnd ==
    \A i \in Scrapers :
        (ret[i].called /\ ret[i].browser # "null") =>
            \A k \in 1..Len(Table) :
                ~Table[k].deadline.isRolling =>
                    (Has(ret[i].grants, Table[k].title)
                        <=> currentDate[i] <= Table[k].deadline.end)

\* C2, as claimed: every list scrapeGrants returns holds the rolling grant,
\* with nextDeadline = currentDate + 24 hours.
C2_RollingAlwaysIncluded ==
    \A i \in Scrapers :
        ret[i].called =>
            \E k \in 1..Len(ret[i].grants) :
                /\ ret[i].grants[k].title = AuthoringOrder[1]
                /\ ret[i].grants[k].deadline.isRolling
                /\ ret[i].grants[k].deadline.nextDeadline = currentDate[i] + OneDay

\* C2, amended: every list scrapeGrants returns while the browser field is
\* non-null holds the rolling grant exactly once, with
\* nextDeadline = currentDate + 24 hours.
C2_RollingIncludedOnceAcquired ==
    \A i \in Scrapers :
        (ret[i].called /\ ret[i].browser # "null") =>
            /\ Cardinality(Rolling(ret[i].grants)) = 1
            /\ \A k \in Rolling(ret[i].grants) :
                  /\ ret[i].grants[k].title = AuthoringOrder[1]
                  /\ ret[i].grants[k].deadline.nextDeadline = currentDate[i] + OneDay

C2_Witness ==
    \E i \in Scrapers :
        /\ ret[i].called
        /\ ret[i].browser # "null"
        /\ currentDate[i] > jfEnd
        /\ Rolling(ret[i].grants) # {}

\* C3: main invokes close() only once the try block and the catch block are
\* over, and when main has finished close() was invoked, an acquired browser
\* handle is closed, a thrown error was caught and logged, and main's
\* promise is resolved.
C3_ReleaseOnEveryExit ==
    /\ closeCalls > 0 => pc = "done"
    /\ pc = "done" =>
          /\ closeCalls = 1
          /\ acquired => browser[1] = "closed"
          /\ thrown => \E k \in 1..Len(console) : console[k][1] = "Error:"
          /\ MainOutcome = "resolved"

C3_Witness ==
    /\ pc = "done"
    /\ thrown
    /\ acquired
    /\ browser[1] = "closed"

\* C4: formatDeadline returns the rolling label exactly when isRolling, else
\* the next-deadline label exactly when nextDeadline is present, else the
\* range label exactly when start and end are present, else the fallback.
C4_FormatDeadlinePriority ==
    formatted[1] = "formatDeadline" =>
        LET d == formatted[2]
            r == formatted[3]
        IN  r = IF d.isRolling THEN <<"rolling">>
                ELSE IF d.nextDeadline # Undefined
                THEN <<"next", toLocaleDateString(d.nextDeadline)>>
                ELSE IF d.start # Undefined /\ d.end # Undefined
                THEN <<"range", toLocaleDateString(d.start),
                                toLocaleDateString(d.end)>>
                ELSE <<"fallback">>

C4_Witness ==
    /\ formatted[1] = "formatDeadline"
    /\ ~formatted[2].isRolling
    /\ formatted[2].nextDeadline = Undefined
    /\ formatted[2].start # Undefined
    /\ formatted[2].end # Undefined
    /\ formatted[3][1] = "range"

\* C5: the titles of a returned list are in strictly increasing authoring
\* position: a subsequence of the table's order, nothing twice.
C5_AuthoringOrderKept ==
    \A i \in Scrapers :
        ret[i].called =>
            /\ \A k \in 1..Len(ret[i].grants) :
                  Position(ret[i].grants[k].title) > 0
            /\ \A a, b \in 1..Len(ret[i].grants) :
                  a < b => Position(ret[i].grants[a].title)
                              < Position(ret[i].grants[b].title)

C5_Witness ==
    \E i \in Scrapers : ret[i].called /\ Len(ret[i].grants) = 3

\* C6: a list returned by scrapeGrants shows the same records, nextDeadline
\* values and deadline renderings as any list returned earlier for the same
\* reference time in the same browser state, on the same or another instance.
C6_SameReferenceSameList ==
    [][\A i, j \in Scrapers :
          (/\ ret[j].called
           /\ ret'[i].called
           /\ currentDate'[i] = currentDate[j]
           /\ (ret'[i].browser = "null") = (ret[j].browser = "null"))
          => Visible(ret'[i].grants) = Visible(ret[j].grants)]_vars

C6_Witness ==
    /\ ret[1].called
    /\ ret[2].called
    /\ currentDate[1] = currentDate[2]
    /\ ret[1].browser # "null"
    /\ ret[2].browser # "null"
    /\ ret[1].at # ret[2].at

\* C7: formatAmount with 'JPY' returns the amount with every yen glyph made
\* full-width, so no yen glyph is left; with another currency it returns the
\* amount itself.
C7_FormatAmountNormalizes ==
    formatted[1] = "formatAmount" =>
        LET a == formatted[2]
            c == formatted[3]
            r == formatted[4]
        IN  IF c = "JPY"
            THEN /\ r = [k \in 1..Len(a) |->
                             IF a[k] = "YEN" THEN "FULLWIDTH_YEN" ELSE a[k]]
                 /\ \A k \in 1..Len(r) : r[k] # "YEN"
            ELSE r = a

\* C8: in every returned list a rolling record has neither start nor end and
\* a non-rolling record has an end.
C8_DeadlineShape ==
    \A i \in Scrapers :
        \A k \in 1..Len(ret[i].grants) :
            LET d == ret[i].grants[k].deadline
            IN  /\ d.isRolling => (d.start = Undefined /\ d.end = Undefined)
                /\ ~d.isRolling => d.end # Undefined

C8_Witness ==
    \E i \in Scrapers :
        /\ Len(ret[i].grants) = 3
        /\ \E k \in 1..3 : ret[i].grants[k].deadline.isRolling
        /\ \E k \in 1..3 : ~ret[i].grants[k].deadline.isRolling

\* C9: scrapeGrants returns the empty list exactly when no initialize call
\* had completed on the instance, which is exactly when browser is null; a
\* call after close() still returns a non-empty list.
C9_EmptyIffNeverInitialized ==
    \A i \in Scrapers :
        /\ (browser[i] = "null") <=> ~initDone[i]
        /\ ret[i].called =>
              /\ (ret[i].grants = <<>>) <=> ~ret[i].initDone
              /\ ret[i].browser = "closed" => ret[i].grants # <<>>

C9_Witness ==
    \E i \in Scrapers :
        /\ ret[i].called
        /\ ret[i].browser = "closed"
        /\ Len(ret[i].grants) >= 2

\* C10: no operation on a constructed instance changes its currentDate, and
\* the rolling grant's nextDeadline is the same in successive returns.
C10_CurrentDateFixed ==
    [][\A i \in Scrapers :
          constructed[i] =>
              /\ currentDate'[i] = currentDate[i]
              /\ \A a \in Rolling(ret[i].grants), b \in Rolling(ret'[i].grants) :
                    ret'[i].grants[b].deadline.nextDeadline
                        = ret[i].grants[a].deadline.nextDeadline]_vars

C10_Witness ==
    \E i \in Scrapers :
        /\ ret[i].called
        /\ Rolling(ret[i].grants) # {}
        /\ TokyoNow(ret[i].at) = currentDate[i] + MaxTicks

====
